---- MODULE Spec2Model ----
(***************************************************************************)
(* Model of the backdrop photo downloader.                                 *)
(*                                                                         *)
(* Two program variants live in the repository and both are modelled:      *)
(*   "main"     - src/main.rs: download_photos returns the list of results *)
(*                and main writes photo<index>.png for the successes;      *)
(*   "backdrop" - src/bin/backdrop.rs (src/bin/main.rs has the same        *)
(*                download_photos and delete_old_photos): tasks built on   *)
(*                Client::download_photo of src/unsplash/mod.rs, files     *)
(*                <folder>/<id>.png, then the eviction pass.               *)
(*                                                                         *)
(* Environment: every HTTP exchange and every filesystem call that the     *)
(* code treats as fallible may fail.  The results of DirEntry::metadata,   *)
(* Metadata::created and fs::remove_file are attributes of the directory   *)
(* entry (meta, created, rm): the directory is not touched by anybody else *)
(* during or between eviction passes, so the same call on the same entry   *)
(* gives the same answer.  A payload is represented by its byte length.    *)
(***************************************************************************)
EXTENDS Integers, Sequences, FiniteSets, TLC

\* ---- bounds of the model
MaxPhotos == 2      \* descriptors returned by the catalog
MaxPayload == 2     \* payload lengths 1..MaxPayload
MaxFiles == 2       \* directory entries at the start of an eviction run
MaxLen == 2         \* file lengths 1..MaxLen
MaxTime == 2        \* creation times 1..MaxTime
MaxBudget == 3      \* max_size in 0..MaxBudget
MaxPasses == 2      \* successive calls of delete_old_photos

\* ---- program constants
UNIX_EPOCH == 0
\* stand-in for 2^64, larger than every size the model can build
U64Modulus == 1024

VARIABLES
    variant,    \* which program runs: "main" | "backdrop" | "none"
    pc,         \* position of the caller
    result,     \* what download_photos / main returned
    catalog,    \* the exchanges of fetch_photos with the catalog, in order
    photos,     \* the descriptors returned by fetch_photos (their ids)
    createdDir, \* fs::create_dir_all has succeeded
    tasks,      \* the JoinSet: one record per spawned task
    joined,     \* task indices in completion order
    outcomes,   \* the list returned by join_all
    next,       \* index of the persist loop
    written,    \* names written by the batch, in order
    folder,     \* the storage directory: sequence of entries
    listable,   \* read_dir succeeds on the storage directory
    max_size,   \* config.max_size
    epc,        \* position of delete_old_photos
    eres,       \* result of the last delete_old_photos pass
    files,      \* the VecDeque of the pass
    size,       \* the running size counter
    iters,      \* iterations of the eviction loop in this pass
    removed,    \* entries removed by this pass, in order
    folder0,    \* the directory when this pass started
    passes      \* passes started so far

vars == <<variant, pc, result, catalog, photos, createdDir, tasks, joined, outcomes,
          next, written, folder, listable, max_size, epc, eres, files, size, iters,
          removed, folder0, passes>>

pipeVars == <<variant, pc, result, catalog, photos, createdDir, tasks, joined,
              outcomes, next, written>>
evictVars == <<listable, max_size, epc, eres, files, size, iters, removed, folder0,
               passes>>

\* ------------------------------------------------------------------------
\* HTTP
\* ------------------------------------------------------------------------
\* what the network does with one request: no response, a 2xx, another status
Responses == {"fail", "2xx", "4xx"}

\* Client::send_request
SendRequest(resp) ==
    IF resp = "fail" THEN "Request"
    ELSE IF resp # "2xx" THEN "Status"
    ELSE "Ok"

\* src/main.rs: request.send().await.map_err(|_| Error::Request)
SendMapErr(resp) == IF resp = "fail" THEN "Request" ELSE "Ok"

\* src/main.rs: handle_response
handle_response(resp) == IF resp # "2xx" THEN "Status" ELSE "Ok"

\* the usage-notification exchange of a task
TrackResult(v, resp) ==
    IF v = "main" THEN SendMapErr(resp) ELSE SendRequest(resp)

\* the content exchange of a task
RawResult(v, resp) ==
    IF v = "main"
    THEN IF SendMapErr(resp) # "Ok" THEN "Request" ELSE handle_response(resp)
    ELSE SendRequest(resp)

Payloads == 1..MaxPayload

Pending == [kind |-> "Pending", data |-> 0]
Err(k) == [kind |-> k, data |-> 0]
Ok(d) == [kind |-> "Ok", data |-> d]

\* ------------------------------------------------------------------------
\* The download tasks
\* ------------------------------------------------------------------------
NewTask == [st |-> "track", log |-> <<>>, res |-> Pending]

\* a failing task that takes the unfinished tasks of the set down with it
TaskEndsAbortsOthers(ts, i, lg, r) ==
    [j \in DOMAIN ts |->
        IF j = i THEN [st |-> "done", log |-> lg, res |-> r]
        ELSE IF r.kind # "Ok" /\ ts[j].st # "done"
             THEN [st |-> "done", log |-> ts[j].log, res |-> Err("Request")]
             ELSE ts[j]]

\* a finished task keeps its result in its own slot of the JoinSet
TaskEnds(ts, i, lg, r) ==
    [ts EXCEPT ![i] = [st |-> "done", log |-> lg, res |-> r]]

TaskMoves(ts, i, s, lg) ==
    [ts EXCEPT ![i] = [st |-> s, log |-> lg, res |-> Pending]]

Running == pc \in {"mkdir", "join"}

TrackRequest(i) ==
    /\ Running
    /\ i \in DOMAIN tasks
    /\ tasks[i].st = "track"
    /\ \E resp \in Responses :
         LET lg == Append(tasks[i].log, <<"track", resp, 0>>)
             r == TrackResult(variant, resp)
         IN  IF r = "Ok"
             THEN /\ tasks' = TaskMoves(tasks, i, "raw", lg)
                  /\ UNCHANGED joined
             ELSE /\ tasks' = TaskEnds(tasks, i, lg, Err(r))
                  /\ joined' = Append(joined, i)
    /\ UNCHANGED <<catalog, variant, pc, result, photos, createdDir, outcomes, next,
                   written, folder>>
    /\ UNCHANGED evictVars

RawRequest(i) ==
    /\ Running
    /\ i \in DOMAIN tasks
    /\ tasks[i].st = "raw"
    /\ \E resp \in Responses :
         LET lg == Append(tasks[i].log, <<"raw", resp, 0>>)
             r == RawResult(variant, resp)
         IN  IF r = "Ok"
             THEN /\ tasks' = TaskMoves(tasks, i, "bytes", lg)
                  /\ UNCHANGED joined
             ELSE /\ tasks' = TaskEnds(tasks, i, lg, Err(r))
                  /\ joined' = Append(joined, i)
    /\ UNCHANGED <<catalog, variant, pc, result, photos, createdDir, outcomes, next,
                   written, folder>>
    /\ UNCHANGED evictVars

\* response.bytes().await.map_err(|_| Error::InvalidResponse)
ReadBytes(i) ==
    /\ Running
    /\ i \in DOMAIN tasks
    /\ tasks[i].st = "bytes"
    /\ \E d \in {0} \cup Payloads :
         LET lg == Append(tasks[i].log,
                         <<"bytes", IF d = 0 THEN "fail" ELSE "2xx", d>>)
         IN  tasks' = TaskEnds(tasks, i, lg,
                               IF d = 0 THEN Err("InvalidResponse") ELSE Ok(d))
    /\ joined' = Append(joined, i)
    /\ UNCHANGED <<catalog, variant, pc, result, photos, createdDir, outcomes, next,
                   written, folder>>
    /\ UNCHANGED evictVars

\* ------------------------------------------------------------------------
\* The storage directory
\* ------------------------------------------------------------------------
\* an entry: name, byte length, creation time (-1: not available), whether
\* its metadata can be read, whether it can be removed
Entry(n, l, c, m, r) == [name |-> n, len |-> l, created |-> c, meta |-> m, rm |-> r]

Names(dir) == {dir[k].name : k \in DOMAIN dir}

IndexOf(dir, n) == CHOOSE k \in DOMAIN dir : dir[k].name = n

RECURSIVE MaxCreated(_)
MaxCreated(dir) ==
    IF dir = <<>> THEN UNIX_EPOCH
    ELSE LET m == MaxCreated(Tail(dir))
         IN  IF Head(dir).created > m THEN Head(dir).created ELSE m

\* a write that never looks for an existing file of that name
WriteFileAppends(dir, n, l) ==
    Append(dir, Entry(n, l, MaxCreated(dir) + 1, TRUE, TRUE))

\* fs::write / File::create + write_all: truncates an existing file of that
\* name, creates it otherwise
WriteFile(dir, n, l) ==
    IF n \in Names(dir)
    THEN [dir EXCEPT ![IndexOf(dir, n)].len = l]
    ELSE Append(dir, Entry(n, l, MaxCreated(dir) + 1, TRUE, TRUE))

RECURSIVE Without(_, _)
Without(dir, n) ==
    IF dir = <<>> THEN <<>>
    ELSE IF Head(dir).name = n THEN Tail(dir)
    ELSE <<Head(dir)>> \o Without(Tail(dir), n)

\* ------------------------------------------------------------------------
\* The caller: download_photos, and main of src/main.rs
\* ------------------------------------------------------------------------
\* Client::new_from_env (src/main.rs: env::var in main)
NewClient ==
    /\ pc = "start"
    /\ \E ok \in BOOLEAN :
         IF ok THEN pc' = "fetch" /\ UNCHANGED result
         ELSE pc' = "returned" /\ result' = "InvalidApiKey"
    /\ UNCHANGED <<catalog, variant, photos, createdDir, tasks, joined, outcomes, next,
                   written, folder>>
    /\ UNCHANGED evictVars

\* config.fetch.query: None, Query::Text, Query::Topic
Queries == {"none", "text", "topic"}

\* one request to the catalog and the decoding of its answer:
\* send_request (src/main.rs: send + handle_response), then response.json()
CatalogCall(v, resp, decodes) ==
    LET sent == RawResult(v, resp)
    IN  IF sent # "Ok" THEN sent
        ELSE IF decodes THEN "Ok" ELSE "InvalidResponse"

\* src/main.rs looks the topic "nature" up in every run, Client::fetch_photos
\* only for Query::Topic
LooksUpTopic(v, q) == v = "main" \/ q = "topic"

\* a resolution that goes on to the photo request after a failed topic lookup
FetchPhotosIgnoresTopic(v, q, tr, tj, pr, pj) == CatalogCall(v, pr, pj)

\* Client::fetch_photos (src/main.rs: find_topic(..)? then fetch_photos(..)?)
FetchPhotosResult(v, q, tr, tj, pr, pj) ==
    IF LooksUpTopic(v, q) /\ CatalogCall(v, tr, tj) # "Ok"
    THEN CatalogCall(v, tr, tj)
    ELSE CatalogCall(v, pr, pj)

\* the exchanges that resolution makes
CatalogLog(v, q, tr, tj, pr, pj) ==
    IF LooksUpTopic(v, q)
    THEN IF CatalogCall(v, tr, tj) # "Ok"
         THEN <<<<"topic", tr, tj>>>>
         ELSE <<<<"topic", tr, tj>>, <<"photos", pr, pj>>>>
    ELSE <<<<"photos", pr, pj>>>>

\* fetch_photos, then the loop that spawns one task per photo
FetchPhotos ==
    /\ pc = "fetch"
    /\ \E q \in Queries, tr \in Responses, tj \in BOOLEAN,
          pr \in Responses, pj \in BOOLEAN :
         LET r == FetchPhotosResult(variant, q, tr, tj, pr, pj)
         IN  /\ catalog' = CatalogLog(variant, q, tr, tj, pr, pj)
             /\ IF r = "Ok"
                THEN \E n \in 0..MaxPhotos :
                       /\ photos' = [i \in 1..n |-> i]
                       /\ tasks' = [i \in 1..n |-> NewTask]
                       /\ pc' = IF variant = "backdrop" THEN "mkdir" ELSE "join"
                       /\ UNCHANGED result
                ELSE /\ pc' = "returned"
                     /\ result' = r
                     /\ UNCHANGED <<photos, tasks>>
    /\ UNCHANGED <<variant, createdDir, joined, outcomes, next, written, folder>>
    /\ UNCHANGED evictVars

\* dropping the JoinSet aborts every task that has not finished
AbortAll(ts) ==
    [i \in DOMAIN ts |->
        IF ts[i].st = "done" THEN ts[i] ELSE [ts[i] EXCEPT !.st = "aborted"]]

\* fs::create_dir_all(&config.folder)?
CreateDirAll ==
    /\ pc = "mkdir"
    /\ \E ok \in BOOLEAN :
         IF ok
         THEN /\ pc' = "join"
              /\ createdDir' = TRUE
              /\ UNCHANGED <<result, tasks>>
         ELSE /\ pc' = "returned"
              /\ result' = "Io"
              /\ tasks' = AbortAll(tasks)
              /\ UNCHANGED createdDir
    /\ UNCHANGED <<catalog, variant, photos, joined, outcomes, next, written, folder>>
    /\ UNCHANGED evictVars

\* join_all returns once the JoinSet is empty
JoinAllReady(ts) == \A i \in DOMAIN ts : ts[i].st = "done"

\* a collection that keeps the successes only
CollectDropsFailed(ts, order) ==
    LET ok == SelectSeq(order, LAMBDA i : ts[i].res.kind = "Ok")
    IN  [k \in 1..Len(ok) |->
            [task |-> ok[k], res |-> ts[ok[k]].res, photo |-> photos[ok[k]]]]

\* join_all collects the results in completion order
Collect(ts, order) ==
    [k \in 1..Len(order) |->
        [task |-> order[k], res |-> ts[order[k]].res, photo |-> photos[order[k]]]]

JoinAll ==
    /\ pc = "join"
    /\ JoinAllReady(tasks)
    /\ outcomes' = Collect(tasks, joined)
    /\ pc' = "persist"
    /\ next' = 1
    /\ UNCHANGED <<catalog, variant, result, photos, createdDir, tasks, joined, written,
                   folder>>
    /\ UNCHANGED evictVars

\* an index that starts at 1
FileNameFromOne(v, o, k) == IF v = "main" THEN k ELSE o.photo

\* src/bin/backdrop.rs: <folder>/<id>.png
\* src/main.rs: photo<index>.png, index from enumerate()
FileName(v, o, k) == IF v = "main" THEN k - 1 ELSE o.photo

\* one iteration of the loop over the collected results, src/bin/backdrop.rs
Persist ==
    /\ pc = "persist"
    /\ variant = "backdrop"
    /\ next <= Len(outcomes)
    /\ LET o == outcomes[next]
           n == FileName(variant, o, next)
       IN  IF o.res.kind # "Ok"
           THEN \* let (photo, data) = photo?;
                /\ pc' = "returned"
                /\ result' = o.res.kind
                /\ UNCHANGED <<next, written, folder>>
           ELSE \E w \in {"ok", "create", "write"} :
                  IF w = "ok"
                  THEN /\ folder' = WriteFile(folder, n, o.res.data)
                       /\ written' = Append(written, n)
                       /\ next' = next + 1
                       /\ UNCHANGED <<pc, result>>
                  ELSE \* fs::write(&path, &data)?  fails opening the file,
                       \* or after it has been truncated
                       /\ folder' = IF w = "create" THEN folder
                                    ELSE WriteFile(folder, n, 0)
                       /\ pc' = "returned"
                       /\ result' = "Io"
                       /\ UNCHANGED <<next, written>>
    /\ UNCHANGED <<catalog, variant, photos, createdDir, tasks, joined, outcomes>>
    /\ UNCHANGED evictVars

\* one iteration of the loop in main of src/main.rs
PersistMain ==
    /\ pc = "persist"
    /\ variant = "main"
    /\ next <= Len(outcomes)
    /\ LET o == outcomes[next]
           n == FileName(variant, o, next)
       IN  IF o.res.kind # "Ok"
           THEN \* if let Ok(bytes) = image
                /\ next' = next + 1
                /\ UNCHANGED <<pc, result, written, folder>>
           ELSE \E w \in {"ok", "create", "write"} :
                  IF w = "ok"
                  THEN /\ folder' = WriteFile(folder, n, o.res.data)
                       /\ written' = Append(written, n)
                       /\ next' = next + 1
                       /\ UNCHANGED <<pc, result>>
                  ELSE \* File::create(..).unwrap() / write_all(..).unwrap()
                       /\ folder' = IF w = "create" THEN folder
                                    ELSE WriteFile(folder, n, 0)
                       /\ pc' = "returned"
                       /\ result' = "panic"
                       /\ UNCHANGED <<next, written>>
    /\ UNCHANGED <<catalog, variant, photos, createdDir, tasks, joined, outcomes>>
    /\ UNCHANGED evictVars

\* the two persist loops as a function of the collected list: the directory
\* they leave when every write succeeds
RECURSIVE PersistFrom(_, _, _, _)
PersistFrom(v, outs, k, dir) ==
    IF k > Len(outs) THEN dir
    ELSE IF outs[k].res.kind # "Ok"
         THEN IF v = "main" THEN PersistFrom(v, outs, k + 1, dir) ELSE dir
         ELSE PersistFrom(v, outs, k + 1,
                          WriteFile(dir, FileName(v, outs[k], k), outs[k].res.data))

\* Ok(()) after the loop
ReturnOk ==
    /\ pc = "persist"
    /\ next > Len(outcomes)
    /\ pc' = "returned"
    /\ result' = "Ok"
    /\ UNCHANGED <<catalog, variant, photos, createdDir, tasks, joined, outcomes, next,
                   written, folder>>
    /\ UNCHANGED evictVars

\* ------------------------------------------------------------------------
\* delete_old_photos
\* ------------------------------------------------------------------------
\* files.iter().filter_map(|file| file.metadata().ok()).map(len).sum()
RECURSIVE TotalSize(_)
TotalSize(fs) ==
    IF fs = <<>> THEN 0
    ELSE (IF Head(fs).meta THEN Head(fs).len ELSE 0) + TotalSize(Tail(fs))

\* off by one above the budget
OverBudgetAboveLimit(s, max) == s > max + 1

\* off by one at the budget
OverBudgetAtLimit(s, max) == s >= max

\* the condition of the early return and of the while loop
OverBudget(s, max) == s > max

\* the key of sort_by_key
SortKey(e) ==
    IF e.meta /\ e.created >= 0 THEN e.created ELSE UNIX_EPOCH

\* sort_by_key is a stable sort: an entry goes behind the entries whose
\* key is not larger
RECURSIVE Insert(_, _)
Insert(sorted, e) ==
    IF sorted = <<>> THEN <<e>>
    ELSE IF SortKey(Head(sorted)) <= SortKey(e)
         THEN <<Head(sorted)>> \o Insert(Tail(sorted), e)
         ELSE <<e>> \o sorted

\* the directory order, not sorted
Unsorted(fs) == fs

RECURSIVE SortByCreated(_)
SortByCreated(fs) ==
    IF fs = <<>> THEN <<>>
    ELSE Insert(SortByCreated(SubSeq(fs, 1, Len(fs) - 1)), fs[Len(fs)])

\* the counter is not decremented
DecrementForgotten(s, l) == s

\* size -= len
Decrement(s, l) == s - l

\* read_dir, the sum, the early return and the sort
ReadDir ==
    /\ epc \in {"ready", "done"}
    /\ eres \notin {"panic_unwrap", "panic_overflow"}
    /\ passes < MaxPasses
    /\ passes' = passes + 1
    /\ folder0' = folder
    /\ iters' = 0
    /\ removed' = <<>>
    /\ IF ~listable
         THEN \* config.folder.read_dir()?
              /\ epc' = "done"
              /\ eres' = "read_dir"
              /\ files' = <<>>
              /\ size' = 0
         ELSE LET s == TotalSize(folder)
              IN  /\ size' = s
                  /\ IF ~OverBudget(s, max_size)
                     THEN /\ epc' = "done"
                          /\ eres' = "Ok"
                          /\ files' = folder
                     ELSE /\ epc' = "loop"
                          /\ eres' = "none"
                          /\ files' = SortByCreated(folder)
    /\ UNCHANGED <<listable, max_size, folder>>
    /\ UNCHANGED pipeVars

\* one iteration of the while loop
EvictStep ==
    /\ epc = "loop"
    /\ iters' = iters + 1
    /\ IF files = <<>>
       THEN \* files.pop_front().unwrap()
            /\ epc' = "done"
            /\ eres' = "panic_unwrap"
            /\ UNCHANGED <<files, size, removed, folder>>
       ELSE LET file == Head(files)
            IN  /\ files' = Tail(files)
                /\ IF ~file.rm
                   THEN \* fs::remove_file(file.path())?
                        /\ epc' = "done"
                        /\ eres' = "remove_file"
                        /\ UNCHANGED <<size, removed, folder>>
                   ELSE /\ folder' = Without(folder, file.name)
                        /\ removed' = Append(removed, file)
                        /\ IF ~file.meta
                           THEN \* file.metadata()?
                                /\ epc' = "done"
                                /\ eres' = "metadata"
                                /\ UNCHANGED size
                           ELSE IF file.len > size
                           THEN \* the subtraction overflows: a panic with
                                \* overflow checks, a wrap without
                                \E checked \in BOOLEAN :
                                  IF checked
                                  THEN /\ epc' = "done"
                                       /\ eres' = "panic_overflow"
                                       /\ UNCHANGED size
                                  ELSE /\ size' = Decrement(size, file.len) + U64Modulus
                                       /\ epc' = "loop"
                                       /\ eres' = "none"
                           ELSE LET s == Decrement(size, file.len)
                                IN  /\ size' = s
                                    /\ IF OverBudget(s, max_size)
                                       THEN epc' = "loop" /\ eres' = "none"
                                       ELSE epc' = "done" /\ eres' = "Ok"
    /\ UNCHANGED <<listable, max_size, folder0, passes>>
    /\ UNCHANGED pipeVars

\* ------------------------------------------------------------------------
\* Specifications
\* ------------------------------------------------------------------------
NoEviction ==
    /\ listable = TRUE
    /\ max_size = 0
    /\ epc = "off"
    /\ eres = "none"
    /\ files = <<>>
    /\ size = 0
    /\ iters = 0
    /\ removed = <<>>
    /\ folder0 = <<>>
    /\ passes = 0

NoPipeline ==
    /\ variant = "none"
    /\ pc = "off"
    /\ result = "none"
    /\ catalog = <<>>
    /\ photos = <<>>
    /\ createdDir = FALSE
    /\ tasks = <<>>
    /\ joined = <<>>
    /\ outcomes = <<>>
    /\ next = 0
    /\ written = <<>>

\* an empty directory, or one that holds a file of an earlier run
InitialFolders == {<<>>, <<Entry(1, 1, 1, TRUE, TRUE)>>}

\* a run of the program on an empty directory or on one that holds a file
\* of an earlier run
Init ==
    /\ variant \in {"main", "backdrop"}
    /\ pc = "start"
    /\ result = "none"
    /\ catalog = <<>>
    /\ photos = <<>>
    /\ createdDir = FALSE
    /\ tasks = <<>>
    /\ joined = <<>>
    /\ outcomes = <<>>
    /\ next = 0
    /\ written = <<>>
    /\ folder \in InitialFolders
    /\ NoEviction

Next ==
    \/ NewClient
    \/ FetchPhotos
    \/ CreateDirAll
    \/ \E i \in 1..MaxPhotos : TrackRequest(i)
    \/ \E i \in 1..MaxPhotos : RawRequest(i)
    \/ \E i \in 1..MaxPhotos : ReadBytes(i)
    \/ JoinAll
    \/ Persist
    \/ PersistMain
    \/ ReturnOk

Spec == Init /\ [][Next]_vars

\* the attributes of a directory entry
Attrs ==
    {[len |-> l, created |-> c, meta |-> TRUE, rm |-> r] :
        l \in 1..MaxLen, c \in {-1} \cup 1..MaxTime, r \in BOOLEAN}
    \cup
    {[len |-> l, created |-> -1, meta |-> FALSE, rm |-> r] :
        l \in 1..MaxLen, r \in BOOLEAN}

\* the directories of n entries, named 1..n in listing order
DirsOf(n) ==
    {[i \in 1..n |-> Entry(i, a[i].len, a[i].created, a[i].meta, a[i].rm)] :
        a \in [1..n -> Attrs]}

\* delete_old_photos called on any directory with any budget
InitEvict ==
    /\ NoPipeline
    /\ \E n \in 0..MaxFiles : folder \in DirsOf(n)
    /\ listable \in BOOLEAN
    /\ max_size \in 0..MaxBudget
    /\ epc = "ready"
    /\ eres = "none"
    /\ files = <<>>
    /\ size = 0
    /\ iters = 0
    /\ removed = <<>>
    /\ folder0 = <<>>
    /\ passes = 0

NextEvict ==
    \/ ReadDir
    \/ EvictStep

SpecEvict == InitEvict /\ [][NextEvict]_vars

\* ------------------------------------------------------------------------
\* The whole run of src/bin/backdrop.rs: download_photos(..)?, then
\* delete_old_photos(..)?
\* ------------------------------------------------------------------------
\* download_photos(&config).await? has returned Ok: main goes on to the
\* eviction pass
StartEviction ==
    /\ variant = "backdrop"
    /\ pc = "returned"
    /\ result = "Ok"
    /\ epc = "off"
    /\ pc' = "evict"
    /\ epc' = "ready"
    /\ UNCHANGED <<catalog, variant, result, photos, createdDir, tasks, joined,
                   outcomes, next, written, folder>>
    /\ UNCHANGED <<listable, max_size, eres, files, size, iters, removed,
                   folder0, passes>>

\* the single call of delete_old_photos in run()
RunReadDir ==
    /\ pc = "evict"
    /\ passes = 0
    /\ ReadDir

RunEvictStep ==
    /\ pc = "evict"
    /\ EvictStep

InitRun ==
    /\ variant \in {"main", "backdrop"}
    /\ pc = "start"
    /\ result = "none"
    /\ catalog = <<>>
    /\ photos = <<>>
    /\ createdDir = FALSE
    /\ tasks = <<>>
    /\ joined = <<>>
    /\ outcomes = <<>>
    /\ next = 0
    /\ written = <<>>
    /\ folder \in InitialFolders
    /\ listable \in BOOLEAN
    /\ max_size \in 0..MaxBudget
    /\ epc = "off"
    /\ eres = "none"
    /\ files = <<>>
    /\ size = 0
    /\ iters = 0
    /\ removed = <<>>
    /\ folder0 = <<>>
    /\ passes = 0

NextRun ==
    \/ NewClient
    \/ FetchPhotos
    \/ CreateDirAll
    \/ \E i \in 1..MaxPhotos : TrackRequest(i)
    \/ \E i \in 1..MaxPhotos : RawRequest(i)
    \/ \E i \in 1..MaxPhotos : ReadBytes(i)
    \/ JoinAll
    \/ Persist
    \/ PersistMain
    \/ ReturnOk
    \/ StartEviction
    \/ RunReadDir
    \/ RunEvictStep

SpecRun == InitRun /\ [][NextRun]_vars

\* ------------------------------------------------------------------------
\* Properties
\* ------------------------------------------------------------------------
\* join_all has returned its list
Collected == next > 0

Failed(r) == r.kind \in {"Request", "Status", "InvalidResponse"}

\* C1: the list collected by join_all holds exactly one outcome for each
\* descriptor of the batch, whatever the tasks' results are: as many
\* outcomes as descriptors, and every task is the origin of exactly one.
C1_OneOutcomePerDescriptor ==
    Collected =>
        /\ Len(outcomes) = Len(photos)
        /\ \A i \in DOMAIN photos :
             Cardinality({k \in DOMAIN outcomes : outcomes[k].task = i}) = 1
        /\ \A k \in DOMAIN outcomes : outcomes[k].res = tasks[outcomes[k].task].res

C1_Witness ==
    /\ Collected
    /\ Len(photos) >= 2
    /\ \E k \in DOMAIN outcomes : Failed(outcomes[k].res)
    /\ \E k \in DOMAIN outcomes : outcomes[k].res.kind = "Ok"

\* the write of <folder>/<id>.png for the k-th outcome is the one that failed
WriteFailedAt(k) == result = "Io" /\ k = next

InWritten(n) == \E w \in DOMAIN written : written[w] = n

\* C2: when download_photos of src/bin/backdrop.rs has finished after
\* join_all, every descriptor whose download succeeded (other than one whose
\* own write failed) has been written to <folder>/<id>.png with its payload.
C2_SuccessesPersisted ==
    (pc = "returned" /\ variant = "backdrop" /\ Collected) =>
        \A k \in DOMAIN outcomes :
            (outcomes[k].res.kind = "Ok" /\ ~WriteFailedAt(k)) =>
                /\ InWritten(outcomes[k].photo)
                /\ \E e \in DOMAIN folder :
                     /\ folder[e].name = outcomes[k].photo
                     /\ folder[e].len = outcomes[k].res.data

\* the result a task owes to its own exchanges: the last of them decides
OwnOutcome(lg) ==
    LET last == lg[Len(lg)]
    IN  IF last[2] = "fail"
        THEN IF last[1] = "bytes" THEN Err("InvalidResponse") ELSE Err("Request")
        ELSE IF last[2] = "4xx" THEN Err("Status")
        ELSE Ok(last[3])

\* C3: the outcome of a download task is a function of that task's own
\* exchanges with the network (kind of failure, or the payload its own
\* response carried): two batches that give task j the same exchanges give
\* it the same outcome, whatever happens to another task k.  A task that is
\* neither finished nor untouched was aborted by the failure of
\* create_dir_all, never by another task.
C3_Isolation ==
    \A j \in DOMAIN tasks :
        /\ tasks[j].st = "done" =>
             /\ tasks[j].log # <<>>
             /\ tasks[j].res = OwnOutcome(tasks[j].log)
        /\ tasks[j].st \in {"track", "raw", "bytes"} =>
             /\ tasks[j].res = Pending
             /\ \A x \in DOMAIN tasks[j].log : tasks[j].log[x][2] # "fail"
        /\ tasks[j].st = "aborted" => (result = "Io" /\ ~createdDir)

C3_Witness ==
    \E j, k \in DOMAIN tasks :
        /\ j # k
        /\ tasks[k].st = "done" /\ Failed(tasks[k].res)
        /\ tasks[j].st = "done" /\ tasks[j].res.kind = "Ok"
        /\ Len(tasks[k].log) = 1
        /\ joined = <<k, j>>

\* C4: a task ends in success only if its usage-notification exchange was
\* answered with a 2xx status before its content request was issued.
C4_NotifyBeforeFetch ==
    \A i \in DOMAIN tasks :
        tasks[i].res.kind = "Ok" =>
            \E p, q \in DOMAIN tasks[i].log :
                /\ p < q
                /\ tasks[i].log[p][1] = "track"
                /\ tasks[i].log[p][2] = "2xx"
                /\ tasks[i].log[q][1] = "raw"

\* the bytes of the entries whose metadata can be read
RECURSIVE ReadableBytes(_)
ReadableBytes(dir) ==
    IF dir = <<>> THEN 0
    ELSE IF Head(dir).meta THEN Head(dir).len + ReadableBytes(Tail(dir))
    ELSE ReadableBytes(Tail(dir))

PassDone == epc = "done"
PassOk == epc = "done" /\ eres = "Ok"

\* C5: when delete_old_photos returns Ok, the readable entries left in the
\* directory sum to at most max_size.
C5_WithinBudget ==
    PassOk => ReadableBytes(folder) <= max_size

C5_Witness ==
    /\ PassOk
    /\ ReadableBytes(folder0) > max_size
    /\ removed # <<>>
    /\ folder # <<>>
    /\ ReadableBytes(folder) > 0

\* creation time of an entry as the sort sees it
AgeKey(e) == IF e.meta /\ e.created >= 0 THEN e.created ELSE 0

RECURSIVE SumLen(_)
SumLen(es) == IF es = <<>> THEN 0 ELSE Head(es).len + SumLen(Tail(es))

RemovedNames == {removed[k].name : k \in DOMAIN removed}

\* C6: a pass that starts over budget and returns Ok has removed a prefix
\* of the entries in ascending creation order (no removed entry is younger
\* than a kept one, and the removals happened oldest first), exactly those
\* entries are gone, and the prefix is the shortest one: before its last
\* removal the running size was still above max_size.
C6_ShortestOldestPrefix ==
    (PassOk /\ ReadableBytes(folder0) > max_size) =>
        /\ removed # <<>>
        /\ folder = SelectSeq(folder0, LAMBDA e : e.name \notin RemovedNames)
        /\ \A a \in DOMAIN removed : \A b \in DOMAIN folder :
             AgeKey(removed[a]) <= AgeKey(folder[b])
        /\ \A a, b \in DOMAIN removed :
             a < b => AgeKey(removed[a]) <= AgeKey(removed[b])
        /\ ReadableBytes(folder0) - SumLen(removed) <= max_size
        /\ ReadableBytes(folder0)
             - SumLen(SubSeq(removed, 1, Len(removed) - 1)) > max_size

C6_Witness ==
    /\ PassOk
    /\ removed # <<>>
    /\ folder # <<>>
    /\ removed[1].name # 1
    /\ AgeKey(removed[1]) < AgeKey(folder[1])

\* C7 as claimed: a pass that starts with the readable entries within the
\* budget returns Ok and leaves the directory as it was.
C7_NoOpReturnsOk ==
    (PassDone /\ ReadableBytes(folder0) <= max_size) =>
        (eres = "Ok" /\ folder = folder0)

\* C7 amended: a pass that starts with the readable entries within the
\* budget leaves the directory as it was, without an iteration of the loop,
\* and returns Ok unless read_dir fails; then it returns that error.
C7_NoOpUnchanged ==
    (PassDone /\ ReadableBytes(folder0) <= max_size) =>
        /\ folder = folder0
        /\ removed = <<>>
        /\ iters = 0
        /\ eres = IF listable THEN "Ok" ELSE "read_dir"

C7_Witness ==
    /\ PassOk
    /\ folder0 # <<>>
    /\ max_size > 0
    /\ ReadableBytes(folder0) = max_size
    /\ folder = folder0

\* C8: after the second of two successive calls the directory is what the
\* first call left.
C8_Idempotent ==
    (PassDone /\ passes = 2) => folder = folder0

\* C9: a pass makes at most as many iterations as the snapshot has entries,
\* and the loop never finds the queue empty.
C9_LoopBounded ==
    /\ iters <= Len(folder0)
    /\ eres # "panic_unwrap"
    /\ epc = "loop" => files # <<>>

C9_Witness ==
    /\ PassOk
    /\ Len(folder0) >= 2
    /\ iters = Len(folder0)
    /\ files = <<>>
    /\ folder = <<>>

\* C10: download_photos has not gone past join_all, has not returned and
\* has written no payload while a spawned task is not finished.
C10_JoinAllBarrier ==
    (pc \in {"persist", "returned"} \/ written # <<>>) =>
        \A i \in DOMAIN tasks : tasks[i].st = "done"

\* the run of src/bin/backdrop.rs is over: run() returned the error of
\* download_photos, or delete_old_photos has returned
RunEnded ==
    \/ pc = "returned" /\ result # "Ok"
    \/ pc = "evict" /\ epc = "done"

\* C11: a run of src/bin/backdrop.rs that resolved the catalog, created the
\* folder and collected the outcomes of its tasks has, when it ends, called
\* delete_old_photos exactly once, also when some download failed.
C11_EvictionOnce ==
    (variant = "backdrop" /\ RunEnded /\ Collected) => passes = 1

\* the k-th outcome has been persisted
Persisted(k) == k < next /\ outcomes[k].res.kind = "Ok"

EntriesNamed(n) == {e \in DOMAIN folder : folder[e].name = n}

\* C12: a persisted outcome owns exactly one entry of the directory, also
\* when a file of that name was there before; the entry has the length of
\* the payload written, and writing the same payload to it once more would
\* leave the directory as it is.
C12_PersistIdempotent ==
    \A k \in DOMAIN outcomes :
        Persisted(k) =>
            LET n == FileName(variant, outcomes[k], k)
            IN  /\ Cardinality(EntriesNamed(n)) = 1
                /\ \A e \in EntriesNamed(n) : folder[e].len = outcomes[k].res.data
                /\ WriteFile(folder, n, outcomes[k].res.data) = folder

\* the file of photo 1 was in the folder before the batch and has been
\* overwritten with a payload of another length
C12_Witness ==
    /\ variant = "backdrop"
    /\ written = <<2, 1>>
    /\ Len(folder) = 2
    /\ folder[1].name = 1
    /\ folder[1].len = 2
    /\ Persisted(2)

\* C13: an entry whose metadata cannot be read is never removed by a pass
\* and never makes the pass return an error.
C13_UnreadableUntouched ==
    /\ \A k \in DOMAIN removed : removed[k].meta
    /\ eres # "metadata"

\* C14: a pass fails only on a failed deletion.  When remove_file fails the
\* older entries removed before stay removed and the failing entry and the
\* newer ones are still there; a pass that could list the directory and in
\* which no deletion failed returns Ok.
C14_FailsOnlyOnDeletion ==
    /\ (PassDone /\ eres = "remove_file") =>
          /\ folder = SelectSeq(folder0, LAMBDA e : e.name \notin RemovedNames)
          /\ Len(removed) = iters - 1
    /\ (PassDone /\ listable /\ eres # "remove_file") => eres = "Ok"

\* an exchange with the catalog that did not yield a decodable 2xx answer
ExchangeFailed(x) == ~(x[2] = "2xx" /\ x[3])

ExchangeError(x) ==
    IF x[2] = "fail" THEN "Request"
    ELSE IF x[2] # "2xx" THEN "Status"
    ELSE "InvalidResponse"

\* C15: when an exchange of the resolution fails (topic lookup or photo
\* list: transport failure, non-2xx status, undecodable answer) it is the
\* last exchange, download_photos has returned that error, no task was
\* spawned, no request of a task was issued, the folder was neither created
\* nor written.
C15_ResolutionFatal ==
    \A x \in DOMAIN catalog :
        ExchangeFailed(catalog[x]) =>
            /\ x = Len(catalog)
            /\ pc = "returned"
            /\ result = ExchangeError(catalog[x])
            /\ photos = <<>>
            /\ tasks = <<>>
            /\ joined = <<>>
            /\ ~createdDir
            /\ written = <<>>
            /\ folder \in InitialFolders

C15_Witness ==
    /\ variant = "backdrop"
    /\ Len(catalog) = 2
    /\ catalog[2][2] = "2xx"
    /\ ExchangeFailed(catalog[2])
    /\ pc = "returned"

\* the file name the k-th outcome of the list stands for
NameOfOutcome(k) == IF variant = "main" THEN k - 1 ELSE outcomes[k].photo

\* C16: no file is written for a failed outcome: its name is not among the
\* names written by the batch and a file of that name is the one that was
\* there before; the batch writes at most as many files as there are
\* successful outcomes.
C16_FailuresNotWritten ==
    Collected =>
        /\ \A k \in DOMAIN outcomes :
              Failed(outcomes[k].res) =>
                  /\ ~InWritten(NameOfOutcome(k))
                  /\ \A e \in EntriesNamed(NameOfOutcome(k)) :
                        folder[e] = Entry(1, 1, 1, TRUE, TRUE)
        /\ Len(written)
             <= Cardinality({k \in DOMAIN outcomes : outcomes[k].res.kind = "Ok"})

C16_Witness ==
    /\ variant = "main"
    /\ pc = "returned"
    /\ Len(outcomes) = 2
    /\ Failed(outcomes[1].res)
    /\ written = <<1>>

\* C17: a task whose usage-notification exchange fails (no answer, or a
\* non-2xx status) makes no further request and ends in failure.
C17_NotifyFailureStopsTask ==
    \A i \in DOMAIN tasks :
        (tasks[i].log # <<>> /\ tasks[i].log[1][2] # "2xx") =>
            /\ Len(tasks[i].log) = 1
            /\ tasks[i].st = "done"
            /\ Failed(tasks[i].res)

\* C18: at the head of every iteration the counter is the sum of the lengths
\* of the snapshot entries still queued.
C18_SizeIsQueuedSum ==
    epc = "loop" => size = SumLen(files)

InOrder == [i \in 1..Len(photos) |-> i]

Contents(dir) == {<<dir[e].name, dir[e].len>> : e \in DOMAIN dir}

\* C19: the files left by download_photos (names and contents) do not
\* depend on the order in which the tasks complete: when it has returned
\* without a failed write, they are the files left by the run in which the
\* tasks, with the same results, complete in the order of the descriptors.
C19_OrderIndependent ==
    (pc = "returned" /\ Collected /\ result \notin {"Io", "panic"}) =>
        \E f0 \in InitialFolders :
            Contents(folder)
              = Contents(PersistFrom(variant, Collect(tasks, InOrder), 1, f0))
====
